---- MODULE Spec2Model ----
(***************************************************************************)
(* Model of the image-resolution pipeline of src/src/downloader.py:        *)
(* slugify, fetch_with_retries and download_images (with its nested        *)
(* download_animal_image run by a ThreadPoolExecutor).                      *)
(*                                                                         *)
(* Two specifications share the variables and the fetch actions:           *)
(*   SpecFetch  one call of fetch_with_retries on a fresh destination,     *)
(*              with a log of the exchanges the session served;            *)
(*   Spec       runs of download_images over a category grouping, the      *)
(*              units of work interleaved over the worker pool.            *)
(* Three more cover the code around them:                                  *)
(*   SpecCli    one execution of main() of src/src/cli.py, download_images *)
(*              being the model of Spec run once;                          *)
(*   SpecLoad   one call of load_manifest of src/src/renderer.py;          *)
(*   SpecLocate one call of extract_image_url;                             *)
(*   SpecSlug   slugify applied to a name and to its own result.           *)
(* SpecLive and SpecFetchLive are Spec and SpecFetch with weak fairness,   *)
(* for the claims about termination.                                       *)
(***************************************************************************)
EXTENDS Integers, Sequences, FiniteSets, TLC

VARIABLES
    mapping,          \* category -> sequence of Animal (name, page_url, image_path)
    files,            \* output_dir: slug -> the file at output_dir/<slug>.jpg
    placeholder,      \* "unset" | "missing" | "present": placeholder_path and its file
    free_space_mb,    \* shutil.disk_usage(output_dir).free in MiB
    workers,          \* max_workers of the pool
    retries,          \* the retries argument
    main,             \* where the calling thread is
    unique_animals,   \* the de-duplicated list of Animal references
    task,             \* per unit of work: its position and locals
    manifest,         \* manifest_entries: name -> path
    run,              \* number of download_images calls started
    server,           \* SpecFetch: the exchange the n-th request will get
    served,           \* SpecFetch: the exchanges of the call so far, in order
    locate_calls,     \* per name: extract_image_url calls in this run
    fetch_calls,      \* per name: fetch_with_retries calls in this run
    copy_calls,       \* per name: shutil.copy calls of the placeholder in this run
    files_at_start,   \* the output directory when the current run started
    first_manifest,   \* how the first run ended, and the manifest it returned
    cli,              \* SpecCli: where main() of cli.py is, its flags and what it did
    manifest_file,    \* SpecCli: the file at args.manifest
    call              \* SpecLoad, SpecLocate, SpecSlug: a function call, its arguments and result

vars == << mapping, files, placeholder, free_space_mb, workers, retries, main,
           unique_animals, task, manifest, run, server, served,
           locate_calls, fetch_calls, copy_calls, files_at_start, first_manifest,
           cli, manifest_file, call >>

caller == << cli, manifest_file, call >>

----------------------------------------------------------------------------
(* Bounds of the model *)

MaxRetries == 2
MaxWorkers == 2
MaxPerCategory == 1
MaxRuns == 2
MaxParsed == 2
MaxImages == 2
MaxFetchRetries == 3

(* Program constants *)

MaxContentLength == 5242880      \* 5 * 1024 * 1024
LowDiskMb == 100
CriticalDiskMb == 10
BaseDelayMs == 500
MIN_WIDTH == 50
MIN_HEIGHT == 50

----------------------------------------------------------------------------
(* slugify: names are sequences of one-character strings *)

UpperLetters ==
    << "A", "B", "C", "D", "E", "F", "G", "H", "I", "J", "K", "L", "M",
       "N", "O", "P", "Q", "R", "S", "T", "U", "V", "W", "X", "Y", "Z" >>
LowerLetters ==
    << "a", "b", "c", "d", "e", "f", "g", "h", "i", "j", "k", "l", "m",
       "n", "o", "p", "q", "r", "s", "t", "u", "v", "w", "x", "y", "z" >>

UpperCase == { UpperLetters[i] : i \in DOMAIN UpperLetters }
LowerCase == { LowerLetters[i] : i \in DOMAIN LowerLetters }
Digits == {"0", "1", "2", "3", "4", "5", "6", "7", "8", "9"}

\* str.lower() on the ASCII letters; every other character of the model
\* (space, punctuation, digits) has no lowercase form and stays as it is
Lower(c) ==
    IF c \in UpperCase
    THEN LowerLetters[CHOOSE i \in DOMAIN UpperLetters : UpperLetters[i] = c]
    ELSE c

RECURSIVE MapLower(_)
MapLower(s) == IF s = <<>> THEN <<>> ELSE <<Lower(Head(s))>> \o MapLower(Tail(s))

RECURSIVE SpacesToHyphens(_)
SpacesToHyphens(s) ==
    IF s = <<>> THEN <<>>
    ELSE <<IF Head(s) = " " THEN "-" ELSE Head(s)>> \o SpacesToHyphens(Tail(s))

SlugChar(c) == c \in LowerCase \cup Digits \cup {"-", "_"}

RECURSIVE RemoveInvalid(_)
RemoveInvalid(s) ==
    IF s = <<>> THEN <<>>
    ELSE (IF SlugChar(Head(s)) THEN <<Head(s)>> ELSE <<>>) \o RemoveInvalid(Tail(s))

\* a slugify that leaves runs of hyphens as they are
CollapseNothing(s) == s

RECURSIVE CollapseHyphens(_)
CollapseHyphens(s) ==
    IF Len(s) < 2 THEN s
    ELSE IF Head(s) = "-" /\ Head(Tail(s)) = "-" THEN CollapseHyphens(Tail(s))
    ELSE <<Head(s)>> \o CollapseHyphens(Tail(s))

RECURSIVE StripLeft(_)
StripLeft(s) == IF s # <<>> /\ Head(s) = "-" THEN StripLeft(Tail(s)) ELSE s

RECURSIVE StripRight(_)
StripRight(s) ==
    IF s # <<>> /\ s[Len(s)] = "-" THEN StripRight(SubSeq(s, 1, Len(s) - 1)) ELSE s

slugify(name) ==
    StripRight(StripLeft(CollapseHyphens(RemoveInvalid(SpacesToHyphens(MapLower(name))))))

----------------------------------------------------------------------------
(* Entities, paths and files *)

Names == { <<"A", " ", "b">>, <<"a", "-", "b">>, <<"C">> }

Slugs == { slugify(n) : n \in Names }

\* slugify on the names of the model, computed once
SlugOf == [n \in Names |-> slugify(n)]

NoUrl == "none"
None == <<>>
NotRun == [ended |-> "none", entries |-> << >>]

\* outside main() of cli.py, and outside a call under test
NoCli == [pc |-> "none", skip_download |-> FALSE, exit |-> -1, events |-> << >>]
NoFile == [exists |-> FALSE, entries |-> << >>]
NoCall == [fn |-> "none"]

\* str(output_dir / f"{slug}.jpg")
ImagePath(slug) == << "output_dir", slug >>

Absent == [kind |-> "absent", size |-> 0]
Partial == [kind |-> "partial", size |-> 0]
Image(n) == [kind |-> "image", size |-> n]
PlaceholderCopy == [kind |-> "placeholder", size |-> 1024]

\* a test for the destination that accepts downloaded images only
ExistsAsImage(f) == f.kind = "image"

\* Path.exists() of the destination
Exists(f) == f.kind # "absent"

----------------------------------------------------------------------------
(* The exchanges a session can serve *)

StatusCodes == {200, 499, 500, 599}

\* The Content-Length header: absent, an integer, or text int() rejects
NoHeader == [kind |-> "absent", value |-> 0]
Garbage == [kind |-> "garbage", value |-> 0]
Declared(n) == [kind |-> "int", value |-> n]

ContentLengths ==
    {NoHeader, Garbage, Declared(MaxContentLength), Declared(MaxContentLength + 1)}

BodySizes == {MaxContentLength, MaxContentLength + 1}

ConnectionError == [conn |-> "error", status |-> 0, cl |-> NoHeader, stream |-> "unread"]
Response(s, h) == [conn |-> "ok", status |-> s, cl |-> h, stream |-> "unread"]

Exchanges == {ConnectionError} \cup { Response(s, h) : s \in StatusCodes, h \in ContentLengths }

\* How saving the body of a response ends: the bytes written when the
\* stream is read to its end, a transport error part-way, or an OSError
\* raised by open() or write().  A declared length is the length of a
\* complete body; an undeclared one may be any size.
StreamBroken == -1
StreamOSError == -2

StreamEnds(h) ==
    (IF h.kind = "int" THEN {h.value} ELSE BodySizes) \cup {StreamBroken, StreamOSError}

----------------------------------------------------------------------------
(* fetch_with_retries *)

\* lines 607-614: "ok", "oversize" (return False) or "ValueError" (int() raises)
ContentLengthCheck(h) ==
    IF h.kind = "absent" THEN "ok"
    ELSE IF h.kind = "garbage" THEN "ValueError"
    ELSE IF h.value > MaxContentLength THEN "oversize"
    ELSE "ok"

IsServerErrorBelow599(s) == 500 <= s /\ s < 599
IsClientError(s) == 400 <= s /\ s < 500
IsServerError(s) == 500 <= s /\ s < 600

RECURSIVE Pow2(_)
Pow2(n) == IF n = 0 THEN 1 ELSE 2 * Pow2(n - 1)

\* a backoff whose exponent is the attempt number
BackoffFromAttempt(attempt) == BaseDelayMs * Pow2(attempt)

\* line 602, without the jitter
Backoff(attempt) == BaseDelayMs * Pow2(attempt - 1)

\* line 600: random.uniform(0.05, 0.15), in ms; the two ends and the middle
JitterMs == {50, 100, 150}

\* lines 601-602: time.sleep before every attempt but the first. The
\* lengths of the sleeps are kept for the single call of SpecFetch only
Sleeps(t, jitter) ==
    IF t.attempt > 0
    THEN Append(t.slept, IF main = "standalone" THEN Backoff(t.attempt) + jitter ELSE 0)
    ELSE t.slept

Dest(i) == SlugOf[unique_animals[i].name]

Idle == [pc |-> "queued", url |-> NoUrl, attempt |-> 0, requests |-> 0,
         slept |-> <<>>, length |-> NoHeader, ret |-> "none", result |-> "none"]

\* a loop that makes one pass more than retries
LoopNextOneMore(t, a) ==
    IF a <= retries THEN [t EXCEPT !.pc = "fetch", !.attempt = a]
    ELSE [t EXCEPT !.pc = "fetched", !.attempt = a, !.ret = "False"]

\* the loop head: the next attempt, or the return after the loop
LoopNext(t, a) ==
    IF a < retries THEN [t EXCEPT !.pc = "fetch", !.attempt = a]
    ELSE [t EXCEPT !.pc = "fetched", !.attempt = a, !.ret = "False"]

\* lines 581-597: the call
FetchCallOutcome(t) ==
    IF t.url = NoUrl THEN [t EXCEPT !.pc = "fetched", !.ret = "False"]
    ELSE LoopNext(t, 0)

\* lines 598-632 for one exchange x: the task afterwards
AttemptOutcome(t, x, jitter) ==
    LET t1 == [t EXCEPT !.requests = @ + 1, !.slept = Sleeps(t, jitter)]
    IN  IF x.conn = "error" THEN LoopNext(t1, t.attempt + 1)
        ELSE IF ContentLengthCheck(x.cl) = "ValueError"
            THEN [t1 EXCEPT !.pc = "fetched", !.ret = "raise"]
        ELSE IF ContentLengthCheck(x.cl) = "oversize"
            THEN [t1 EXCEPT !.pc = "fetched", !.ret = "False"]
        ELSE IF IsClientError(x.status)
            THEN [t1 EXCEPT !.pc = "fetched", !.ret = "False"]
        ELSE IF IsServerError(x.status)
            THEN LoopNext(t1, t.attempt + 1)
        ELSE [t1 EXCEPT !.pc = "stream", !.length = x.cl]

\* what session.get gives the next request of t
Offered(t) == IF main = "standalone" THEN {server[t.requests + 1]} ELSE Exchanges

Log(x) == IF main = "standalone" THEN Append(served, x) ELSE served

LogStream(e) ==
    IF main = "standalone"
    THEN [served EXCEPT ![Len(served)].stream =
              IF e = StreamBroken THEN "broken"
              ELSE IF e = StreamOSError THEN "oserror" ELSE "complete"]
    ELSE served

FetchCall(i) ==
    /\ task[i].pc = "call"
    /\ task' = [task EXCEPT ![i] = FetchCallOutcome(@)]
    /\ UNCHANGED << mapping, files, placeholder, free_space_mb, workers, retries,
                    main, unique_animals, manifest, run, server, served,
                    locate_calls, fetch_calls, copy_calls, files_at_start, first_manifest, caller >>

\* one pass of the loop body up to open(dest, "wb")
FetchAttempt(i) ==
    /\ task[i].pc = "fetch"
    /\ \E x \in Offered(task[i]), jitter \in JitterMs :
        /\ task' = [task EXCEPT ![i] = AttemptOutcome(@, x, jitter)]
        /\ served' = Log(x)
    /\ UNCHANGED << mapping, files, placeholder, free_space_mb, workers, retries,
                    main, unique_animals, manifest, run, server, locate_calls,
                    fetch_calls, copy_calls, files_at_start, first_manifest, caller >>

\* what streaming leaves at dest: open(dest, "wb") truncates, then chunks
\* are written until the stream ends
Saved(f, e) ==
    IF e = StreamOSError THEN f
    ELSE IF e = StreamBroken THEN Partial
    ELSE Image(e)

StreamOutcome(t, e) ==
    IF e = StreamOSError THEN [t EXCEPT !.pc = "fetched", !.length = NoHeader, !.ret = "raise"]
    ELSE IF e = StreamBroken THEN LoopNext([t EXCEPT !.length = NoHeader], t.attempt + 1)
    ELSE [t EXCEPT !.pc = "fetched", !.length = NoHeader, !.ret = "True"]

\* lines 632-637 and the except clause of line 639
FetchStream(i) ==
    /\ task[i].pc = "stream"
    /\ \E e \in StreamEnds(task[i].length) :
        /\ files' = [files EXCEPT ![Dest(i)] = Saved(@, e)]
        /\ task' = [task EXCEPT ![i] = StreamOutcome(@, e)]
        /\ served' = LogStream(e)
    /\ UNCHANGED << mapping, placeholder, free_space_mb, workers, retries,
                    main, unique_animals, manifest, run, server, locate_calls,
                    fetch_calls, copy_calls, files_at_start, first_manifest, caller >>

----------------------------------------------------------------------------
(* SpecFetch: one call fetch_with_retries(url, dest, retries), dest fresh *)

Animal(n, u) == [name |-> n, page_url |-> u, image_path |-> None]

InitFetch ==
    /\ mapping = << >>
    /\ files = [s \in Slugs |-> Absent]
    /\ placeholder = "unset"
    /\ free_space_mb = 500
    /\ workers = 1
    /\ retries \in -1..MaxFetchRetries
    /\ main = "standalone"
    /\ unique_animals = << Animal(<<"C">>, NoUrl) >>
    /\ \E u \in {NoUrl, "image_url"} : task = << [Idle EXCEPT !.pc = "call", !.url = u] >>
    /\ manifest = << >>
    /\ run = 0
    /\ server \in [1..MaxFetchRetries -> Exchanges]
    /\ served = << >>
    /\ locate_calls = << >>
    /\ fetch_calls = << >>
    /\ copy_calls = << >>
    /\ files_at_start = files
    /\ first_manifest = NotRun
    /\ cli = NoCli
    /\ manifest_file = NoFile
    /\ call = NoCall

NextFetch == FetchCall(1) \/ FetchAttempt(1) \/ FetchStream(1)

SpecFetch == InitFetch /\ [][NextFetch]_vars

----------------------------------------------------------------------------
(* download_images *)

CategoryOrder == << "squaloid", "selachian" >>
Categories == { CategoryOrder[k] : k \in 1..Len(CategoryOrder) }

PageUrls == {NoUrl, "page_url"}
Animals == { Animal(n, u) : n \in Names, u \in PageUrls }

BoundedSeq(S, n) == UNION { [1..k -> S] : k \in 0..n }

Groupings == [Categories -> BoundedSeq(Animals, MaxPerCategory)]

FreeSpaces == {5, 50, 500}

\* lines 704-707: the occurrences in mapping order, as references
RECURSIVE Refs(_, _, _)
Refs(m, c, k) ==
    IF k > Len(m[c]) THEN << >>
    ELSE << [name |-> m[c][k].name, page_url |-> m[c][k].page_url, cat |-> c, idx |-> k] >>
         \o Refs(m, c, k + 1)

RECURSIVE Flatten(_, _)
Flatten(m, k) ==
    IF k > Len(CategoryOrder) THEN << >>
    ELSE Refs(m, CategoryOrder[k], 1) \o Flatten(m, k + 1)

FirstByNameKeepAll(all, seen) == all

\* a de-duplication that keeps the last occurrence of each name
RECURSIVE LastByName(_, _)
LastByName(all, seen) ==
    IF all = << >> THEN << >>
    ELSE IF \E k \in 2..Len(all) : all[k].name = Head(all).name
         THEN LastByName(Tail(all), seen)
         ELSE << Head(all) >> \o LastByName(Tail(all), seen)

\* lines 709-714: the first occurrence of each name, in order
RECURSIVE FirstByName(_, _)
FirstByName(all, seen) ==
    IF all = << >> THEN << >>
    ELSE IF Head(all).name \in seen THEN FirstByName(Tail(all), seen)
    ELSE << Head(all) >> \o FirstByName(Tail(all), seen \cup {Head(all).name})

Unique(m) == FirstByName(Flatten(m, 1), {})

\* lines 672-682: the disk-space test raises OSError below the critical threshold
CriticalShortage(free) == free < LowDiskMb /\ free < CriticalDiskMb
DiskCheck(free) == IF CriticalShortage(free) THEN "OSError" ELSE "ok"

\* lines 683-684: "except Exception" around that test logs whatever it raised
ExceptException(outcome) == IF outcome = "ok" THEN "ok" ELSE "logged"

\* animal.image_path = path on the object the reference names
SetImagePath(m, a, path) == [m EXCEPT ![a.cat][a.idx].image_path = path]

Tasks == 1..Len(unique_animals)
Running(i) == task[i].pc \in {"call", "fetch", "stream", "fetched"}

\* a join that would not wait for the units still inside fetch_with_retries
FinishedOrFetching(i) == task[i].pc \in {"done", "call", "fetch", "stream", "fetched"}

\* line 760: the unit's result is in the list
Finished(i) == task[i].pc = "done"

env == << placeholder, free_space_mb, workers, retries >>
probe == << server, served >>

\* download_images up to the submission of the units of work
StartRun ==
    /\ main \in {"idle", "returned", "raised"}
    /\ run < MaxRuns
    /\ run' = run + 1
    /\ files_at_start' = files
    /\ locate_calls' = [n \in Names |-> 0]
    /\ fetch_calls' = [n \in Names |-> 0]
    /\ copy_calls' = [n \in Names |-> 0]
    /\ manifest' = << >>
    /\ IF ExceptException(DiskCheck(free_space_mb)) = "OSError"
       THEN /\ main' = "raised"
            /\ first_manifest' = IF run = 0 THEN [ended |-> "raised", entries |-> << >>]
                                 ELSE first_manifest
            /\ UNCHANGED << unique_animals, task >>
       ELSE /\ main' = "fanout"
            /\ unique_animals' = Unique(mapping)
            /\ task' = [i \in 1..Len(Unique(mapping)) |-> Idle]
            /\ UNCHANGED first_manifest
    /\ UNCHANGED << mapping, files, env, caller, probe >>

\* lines 743-753: the placeholder, or no result
CopyOutcomes == {"copied", "OSError"}

\* a unit of work that has ended keeps its result only
Done(r) == [Idle EXCEPT !.pc = "done", !.result = r]

FallbackNever(copy) == Done("None")

Fallback(copy) ==
    IF placeholder = "present"
    THEN IF copy = "copied" THEN Done("path") ELSE Done("raise")
    ELSE Done("None")

FallbackFile(f, copy) ==
    IF placeholder = "present" /\ copy = "copied" THEN PlaceholderCopy ELSE f

\* line 743: shutil.copy is called when the placeholder is there
CopyAttempts == IF placeholder = "present" THEN 1 ELSE 0

Resolved(t) == t.pc = "done" /\ t.result = "path"

\* a fetch whose result counts as false at line 737
TruthyNever(ret) == FALSE

\* line 737: the truth value of what fetch_with_retries returned
Truthy(ret) == ret = "True"

\* what extract_image_url returns
LocateOutcomes == {NoUrl, "image_url"}

\* lines 721-737: a worker takes the next unit of work
TaskBegin(i) ==
    /\ main = "fanout"
    /\ task[i].pc = "queued"
    /\ \A j \in 1..(i - 1) : task[j].pc # "queued"
    /\ Cardinality({ j \in Tasks : Running(j) }) < workers
    /\ LET a == unique_animals[i]
           dest == SlugOf[a.name]
       IN  IF Exists(files[dest])
           THEN /\ task' = [task EXCEPT ![i] = Done("path")]
                /\ mapping' = SetImagePath(mapping, a, ImagePath(dest))
                /\ UNCHANGED << files, locate_calls, fetch_calls, copy_calls >>
           ELSE \E u \in (IF a.page_url = NoUrl THEN {NoUrl} ELSE LocateOutcomes),
                   copy \in CopyOutcomes :
                /\ locate_calls' = [locate_calls EXCEPT ![a.name] =
                                       IF a.page_url = NoUrl THEN @ ELSE @ + 1]
                /\ IF u # NoUrl
                   THEN /\ task' = [task EXCEPT ![i] = [@ EXCEPT !.pc = "call", !.url = u]]
                        /\ fetch_calls' = [fetch_calls EXCEPT ![a.name] = @ + 1]
                        /\ UNCHANGED << files, mapping, copy_calls >>
                   ELSE /\ task' = [task EXCEPT ![i] = Fallback(copy)]
                        /\ files' = [files EXCEPT ![dest] = FallbackFile(@, copy)]
                        /\ copy_calls' = [copy_calls EXCEPT ![a.name] = @ + CopyAttempts]
                        /\ mapping' = IF Resolved(task'[i])
                                      THEN SetImagePath(mapping, a, ImagePath(dest))
                                      ELSE mapping
                        /\ UNCHANGED fetch_calls
    /\ UNCHANGED << env, caller, main, unique_animals, manifest, run, probe,
                    files_at_start, first_manifest >>

\* lines 737-753: after fetch_with_retries has returned or raised
FetchReturn(i) ==
    /\ main \in {"fanout", "aborting"}
    /\ task[i].pc = "fetched"
    /\ LET a == unique_animals[i]
           dest == SlugOf[a.name]
       IN  \/ /\ task[i].ret # "raise"
              /\ Truthy(task[i].ret)
              /\ task' = [task EXCEPT ![i] = Done("path")]
              /\ mapping' = SetImagePath(mapping, a, ImagePath(dest))
              /\ UNCHANGED << files, copy_calls >>
           \/ /\ task[i].ret = "raise"
              /\ task' = [task EXCEPT ![i] = Done("raise")]
              /\ UNCHANGED << mapping, files, copy_calls >>
           \/ /\ task[i].ret # "raise"
              /\ ~Truthy(task[i].ret)
              /\ \E copy \in CopyOutcomes :
                  /\ task' = [task EXCEPT ![i] = Fallback(copy)]
                  /\ files' = [files EXCEPT ![dest] = FallbackFile(@, copy)]
                  /\ copy_calls' = [copy_calls EXCEPT ![a.name] = @ + CopyAttempts]
                  /\ mapping' = IF Resolved(task'[i])
                                THEN SetImagePath(mapping, a, ImagePath(dest))
                                ELSE mapping
    /\ UNCHANGED << env, caller, main, unique_animals, manifest, run, probe,
                    locate_calls, fetch_calls, files_at_start, first_manifest >>

EntriesLastOnly(ua, tk) ==
    LET withPath == { j \in 1..Len(ua) : tk[j].result = "path" }
        last == CHOOSE j \in withPath : \A k \in withPath : k <= j
    IN  IF withPath = {} THEN << >>
        ELSE [n \in {ua[last].name} |-> ImagePath(SlugOf[n])]

\* lines 763-765: the entries of the results that carry a path
Entries(ua, tk) ==
    LET named == { ua[i].name : i \in { j \in 1..Len(ua) : tk[j].result = "path" } }
    IN  [n \in named |-> ImagePath(SlugOf[n])]

\* an Updated that writes no path back
UpdatedNothing(m, entries) == m

\* lines 774-777: every occurrence whose name has an entry gets its path
Updated(m, entries) ==
    [c \in DOMAIN m |->
        [k \in 1..Len(m[c]) |->
            IF m[c][k].name \in DOMAIN entries
            THEN [m[c][k] EXCEPT !.image_path = entries[m[c][k].name]]
            ELSE m[c][k]]]

\* lines 760-791: all results are in and none is an exception
Join ==
    /\ main = "fanout"
    /\ \A i \in Tasks : Finished(i) /\ task[i].result # "raise"
    /\ manifest' = Entries(unique_animals, task)
    /\ mapping' = Updated(mapping, manifest')
    /\ first_manifest' = IF run = 1 THEN [ended |-> "returned", entries |-> manifest']
                       ELSE first_manifest
    /\ main' = "returned"
    /\ UNCHANGED << files, env, caller, unique_animals, task, run, probe,
                    locate_calls, fetch_calls, copy_calls, files_at_start >>

\* line 760: list(executor.map(...)) re-raises the first exception in
\* submission order; the units not yet started are cancelled
Abort ==
    /\ main = "fanout"
    /\ \E i \in Tasks :
        /\ \A j \in 1..i : Finished(j)
        /\ task[i].result = "raise"
    /\ task' = [i \in Tasks |->
                  IF task[i].pc = "queued" THEN [task[i] EXCEPT !.pc = "cancelled"]
                  ELSE task[i]]
    /\ main' = "aborting"
    /\ UNCHANGED << mapping, files, env, caller, unique_animals, manifest, run, probe,
                    locate_calls, fetch_calls, copy_calls, files_at_start, first_manifest >>

\* line 759: the with block waits for the running units, then the
\* exception leaves download_images
Raise ==
    /\ main = "aborting"
    /\ \A i \in Tasks : ~Running(i)
    /\ main' = "raised"
    /\ first_manifest' = IF run = 1 THEN [ended |-> "raised", entries |-> << >>]
                       ELSE first_manifest
    /\ UNCHANGED << mapping, files, env, caller, unique_animals, task, manifest, run, probe,
                    locate_calls, fetch_calls, copy_calls, files_at_start >>

InitDownload ==
    /\ mapping \in Groupings
    /\ files = [s \in Slugs |-> Absent]
    /\ placeholder \in {"unset", "missing", "present"}
    /\ free_space_mb \in FreeSpaces
    /\ workers \in 1..MaxWorkers
    /\ retries \in 0..MaxRetries
    /\ main = "idle"
    /\ unique_animals = << >>
    /\ task = << >>
    /\ manifest = << >>
    /\ run = 0
    /\ server = << >>
    /\ served = << >>
    /\ locate_calls = [n \in Names |-> 0]
    /\ fetch_calls = [n \in Names |-> 0]
    /\ copy_calls = [n \in Names |-> 0]
    /\ files_at_start = files
    /\ first_manifest = NotRun

Init == InitDownload /\ cli = NoCli /\ manifest_file = NoFile /\ call = NoCall

Next ==
    \/ StartRun
    \/ \E i \in Tasks : TaskBegin(i)
    \/ \E i \in Tasks : FetchCall(i)
    \/ \E i \in Tasks : FetchAttempt(i)
    \/ \E i \in Tasks : FetchStream(i)
    \/ \E i \in Tasks : FetchReturn(i)
    \/ Join
    \/ Abort
    \/ Raise

Spec == Init /\ [][Next]_vars

----------------------------------------------------------------------------
(* Properties of fetch_with_retries, checked under SpecFetch *)


Call == task[1]
Ended == main = "standalone" /\ Call.pc = "fetched"
CallDest == files[Dest(1)]

Is5xx(x) == x.conn = "ok" /\ x.status \in 500..599
Is4xx(x) == x.conn = "ok" /\ x.status \in 400..499
Is2xx(x) == x.conn = "ok" /\ x.status \in 200..299

DeclaresOversize(x) ==
    x.conn = "ok" /\ x.cl.kind = "int" /\ x.cl.value > 5 * 1024 * 1024

\* no Content-Length, or an integer of at most 5 MiB
PassesSizeCheck(x) ==
    x.cl.kind = "absent" \/ (x.cl.kind = "int" /\ x.cl.value <= 5 * 1024 * 1024)

\* the body of the k-th exchange, if it was read, did not break off
NotBroken(k) == Len(served) >= k => served[k].stream # "broken"

\* C1: when the server answers 5xx to the first k-1 requests and a
\* successful 2xx to the k-th (1 <= k <= retries; no answer of the oversized
\* class, the 2xx body not breaking off), the call returns True after exactly
\* k requests and the body is the file at dest.
C1_RetryThenSuccess ==
    \A k \in 1..retries :
        ( /\ Ended
          /\ Call.url # NoUrl
          /\ \A j \in 1..(k - 1) : Is5xx(server[j]) /\ ~DeclaresOversize(server[j])
          /\ Is2xx(server[k]) /\ ~DeclaresOversize(server[k])
          /\ NotBroken(k) )
        => ( /\ Call.ret = "True"
             /\ Call.requests = k
             /\ CallDest.kind = "image" )

\* C2: when every answer is 5xx (none of the oversized class), the call
\* returns False after exactly retries requests and there is no file at dest.
C2_PersistentServerError ==
    ( /\ Ended
      /\ Call.url # NoUrl
      /\ \A j \in 1..retries : Is5xx(server[j]) /\ ~DeclaresOversize(server[j]) )
    => ( /\ Call.ret = "False"
         /\ Call.requests = retries
         /\ CallDest = Absent )

\* C3: a first answer that is 4xx, or that declares more than 5 MiB, ends the
\* call: one request, no backoff, False returned, nothing at dest, whatever
\* retries >= 1 is.
C3_NoRetryOnClientOrSize ==
    ( /\ Ended
      /\ Call.url # NoUrl
      /\ retries >= 1
      /\ (Is4xx(server[1]) \/ DeclaresOversize(server[1])) )
    => ( /\ Call.ret = "False"
         /\ Call.requests = 1
         /\ Call.slept = << >>
         /\ CallDest = Absent )

\* C1-C3 for the answers whose Content-Length is absent or an integer and
\* whose body, once read whole, is saved: the retry policy itself.
RetryPolicy ==
    \A k \in 1..retries :
        ( /\ Ended
          /\ Call.url # NoUrl
          /\ \A j \in 1..(k - 1) : Is5xx(server[j]) /\ PassesSizeCheck(server[j]) )
        => \/ /\ Is2xx(server[k]) /\ PassesSizeCheck(server[k])
              /\ Len(served) >= k => served[k].stream = "complete"
              /\ Call.ret = "True" /\ Call.requests = k /\ CallDest.kind = "image"
           \/ /\ Is5xx(server[k]) /\ PassesSizeCheck(server[k])
              /\ k = retries => (Call.ret = "False" /\ Call.requests = k /\ CallDest = Absent)
           \/ /\ (Is4xx(server[k]) /\ server[k].cl.kind # "garbage") \/ DeclaresOversize(server[k])
              /\ Call.ret = "False" /\ Call.requests = k
              /\ Len(Call.slept) = k - 1
           \/ server[k].conn = "error"
           \/ server[k].cl.kind = "garbage"
           \/ Len(served) >= k /\ served[k].stream \in {"broken", "oserror"}

\* C4: whenever the call returns False, dest holds no file written by it.
C4_NoFileOnFailure ==
    (Ended /\ Call.ret = "False") => CallDest = Absent

\* C5: the call returns True only with a whole body of at most 5 MiB at dest.
C5_TrueOnlyWithinCeiling ==
    (Ended /\ Call.ret = "True")
        => (CallDest.kind = "image" /\ CallDest.size <= 5 * 1024 * 1024)

------------------------------------------------------------

----------------------------------------------------------------------------
(* Properties of download_images, checked under Spec *)

NamesIn(m) == UNION { { m[c][k].name : k \in 1..Len(m[c]) } : c \in DOMAIN m }
CategoriesOf(n) == { c \in Categories : \E k \in 1..Len(mapping[c]) : mapping[c][k].name = n }
Shared(n) == Cardinality(CategoriesOf(n)) >= 2
UnitsOf(n) == { i \in Tasks : unique_animals[i].name = n }
Started == main \in {"fanout", "aborting", "returned", "raised"}

OccurrencesHave(n, path) ==
    \A c \in Categories : \A k \in 1..Len(mapping[c]) :
        mapping[c][k].name = n => mapping[c][k].image_path = path

\* C7: with less than 10 MiB free, download_images raises before any unit of
\* work exists and before any locator or fetch request; no manifest.
C7_RaisesOnCriticalDisk ==
    (free_space_mb < 10 /\ run >= 1)
        => /\ main = "raised"
           /\ \A i \in Tasks : task[i].pc = "queued"
           /\ \A n \in Names : locate_calls[n] = 0 /\ fetch_calls[n] = 0
           /\ manifest = << >>

\* C8 as stated: a name in two or more categories has one unit of work, at
\* most one locator and one fetch call, an entry in the manifest of every run
\* that returns, and that entry's path on each of its occurrences.
C8_Original ==
    \A n \in Names :
        (Shared(n) /\ Started)
        => /\ Cardinality(UnitsOf(n)) = 1
           /\ locate_calls[n] <= 1 /\ fetch_calls[n] <= 1
           /\ main = "returned"
                  => (n \in DOMAIN manifest /\ OccurrencesHave(n, manifest[n]))

\* C8 amended: a name in two or more categories has one unit of work, at
\* most one locator and one fetch call; the manifest of a run that returns
\* has an entry for it exactly when that unit ended with a path (an image, or
\* a copy of the placeholder), none when it ended without one; when the entry
\* exists it is output_dir/<slug> and each occurrence has it as image_path.
C8_OneUnitPerSharedName ==
    \A n \in Names :
        (Shared(n) /\ Started)
        => /\ Cardinality(UnitsOf(n)) = 1
           /\ locate_calls[n] <= 1 /\ fetch_calls[n] <= 1
           /\ main = "returned"
                  => /\ n \in DOMAIN manifest
                           <=> \A i \in UnitsOf(n) : task[i].result = "path"
                     /\ n \notin DOMAIN manifest
                           <=> \A i \in UnitsOf(n) : task[i].result = "None"
                     /\ n \in DOMAIN manifest
                           => /\ manifest[n] = ImagePath(slugify(n))
                              /\ OccurrencesHave(n, manifest[n])

C8_Witness ==
    /\ main = "returned"
    /\ \E n \in Names :
        /\ Shared(n)
        /\ fetch_calls[n] = 1
        /\ n \in DOMAIN manifest
        /\ OccurrencesHave(n, manifest[n])

C8_WitnessNoEntry ==
    /\ main = "returned"
    /\ \E n \in Names : Shared(n) /\ fetch_calls[n] = 1 /\ n \notin DOMAIN manifest

\* C9: in a second run over the same grouping and directory, an entity whose
\* file exists from the first run gets no locator and no fetch request, and
\* the second manifest maps it to the path the first manifest gave it.
C9_SecondRunIdempotent ==
    (run = 2 /\ first_manifest.ended = "returned")
        => \A n \in NamesIn(mapping) :
              Exists(files_at_start[slugify(n)])
              => /\ locate_calls[n] = 0 /\ fetch_calls[n] = 0
                 /\ main = "returned"
                        => /\ n \in DOMAIN first_manifest.entries
                           /\ n \in DOMAIN manifest
                           /\ manifest[n] = first_manifest.entries[n]

\* the part of C9 about requests
NoRequestForExistingFile ==
    (run = 2 /\ first_manifest.ended = "returned")
        => \A n \in NamesIn(mapping) :
              Exists(files_at_start[slugify(n)])
              => locate_calls[n] = 0 /\ fetch_calls[n] = 0

NoResult == { i \in Tasks : task[i].result = "None" }

\* C10: in every run that returns over a non-empty set of unique entities,
\* each unique entity has exactly one result, a path or none, none only
\* without a usable placeholder, and manifest entries + entities without a
\* result = unique names of the grouping.
C10_EveryEntityAccounted ==
    (main = "returned" /\ Len(unique_animals) >= 1)
        => /\ \A i \in Tasks : task[i].pc = "done" /\ task[i].result \in {"path", "None"}
           /\ \A n \in NamesIn(mapping) : Cardinality(UnitsOf(n)) = 1
           /\ \A i \in NoResult : placeholder # "present"
           /\ Cardinality(DOMAIN manifest) + Cardinality(NoResult)
                  = Cardinality(NamesIn(mapping))

C10_Witness ==
    /\ main = "returned"
    /\ Cardinality(NamesIn(mapping)) = 2
    /\ Cardinality(DOMAIN manifest) = 1
    /\ Cardinality(NoResult) = 1

\* C11: with a placeholder configured and present, the manifest of a run that
\* returns has an entry for every unique name, output_dir/<slug> whatever
\* happened to that entity and to the others, and every unit of work ended
\* with a path.
C11_PlaceholderCoversAll ==
    (main = "returned" /\ placeholder = "present")
        => /\ DOMAIN manifest = NamesIn(mapping)
           /\ \A n \in NamesIn(mapping) : manifest[n] = ImagePath(slugify(n))
           /\ \A i \in Tasks : task[i].result = "path"
           /\ \A i \in Tasks : Exists(files[Dest(i)])

C11_Witness ==
    /\ main = "returned"
    /\ placeholder = "present"
    /\ DOMAIN manifest = { <<"a", "-", "b">>, <<"C">> }
    /\ fetch_calls[<<"C">>] = 0
    /\ files[slugify(<<"C">>)].kind = "placeholder"
    /\ fetch_calls[<<"a", "-", "b">>] = 1
    /\ files[slugify(<<"a", "-", "b">>)].kind = "image"

\* C12: no error raised inside a unit of work leaves the worker, and
\* download_images raises only for the disk-space precondition.
C12_NoErrorPropagates ==
    /\ \A i \in Tasks : task[i].result # "raise"
    /\ main \in {"aborting", "raised"} => CriticalShortage(free_space_mb)

\* C13: two different names of the unique set have different destination
\* paths.
C13_DistinctDestinations ==
    \A i, j \in Tasks : i # j => Dest(i) # Dest(j)

\* C14: the manifest of a run that returns is fixed by the grouping, the
\* directory at the start and each entity's own locator and fetch outcome: a
\* name has an entry if and only if its file was there at the start, or its
\* own fetch was called and gave it, or the placeholder was copied.
C14_ManifestIndependentOfSchedule ==
    main = "returned"
        => \A i \in Tasks :
              LET n == unique_animals[i].name
              IN  n \in DOMAIN manifest
                      <=> \/ Exists(files_at_start[slugify(n)])
                          \/ placeholder = "present"
                          \/ fetch_calls[n] = 1 /\ files[slugify(n)].kind = "image"

----------------------------------------------------------------------------
(* SpecCli: one execution of main() of src/src/cli.py.  Steps 1 and 2      *)
(* (snapshot and parse_table) have produced the grouping; download_images  *)
(* is the model above, run once.                                           *)

\* a manifest file left by an earlier execution
OldManifest ==
    [exists |-> TRUE, entries |-> [n \in {<<"C">>} |-> << "old_dir", slugify(n) >>]]

Did(e) == [cli EXCEPT !.events = Append(@, e)]

SkipBranchAlwaysLoad(file) == "load"

\* lines 199-209: --skip-download needs the manifest file
SkipBranch(file) == IF file.exists THEN "load" ELSE "return 1"

OnDownloadEndAlwaysSave(m) == "to_json"

\* lines 186-194: to_json only runs if download_images returned
OnDownloadEnd(m) == IF m = "returned" THEN "to_json" ELSE "uncaught"

\* Manifest.to_json, lines 45-54 of downloader.py
ToJson(entries) == [exists |-> TRUE, entries |-> entries]

downloader == << mapping, files, env, unique_animals, task, manifest, run, probe,
                 main, locate_calls, fetch_calls, copy_calls, files_at_start, first_manifest >>

\* lines 147-209: up to the call of download_images, or the skip branch
CliBegin ==
    /\ cli.pc = "start"
    /\ IF ~cli.skip_download
       THEN cli' = [Did("download_images") EXCEPT !.pc = "download"]
       ELSE IF SkipBranch(manifest_file) = "load"
            THEN cli' = [Did("json.load") EXCEPT !.pc = "report"]
            ELSE cli' = [cli EXCEPT !.pc = "exit", !.exit = 1]
    /\ UNCHANGED << downloader, manifest_file, call >>

\* line 186: the call
CliDownload == cli.pc = "download" /\ run = 0 /\ StartRun

\* line 194: manifest.to_json(args.manifest)
CliSave ==
    /\ cli.pc = "download"
    /\ main \in {"returned", "raised"}
    /\ OnDownloadEnd(main) = "to_json"
    /\ manifest_file' = ToJson(manifest)
    /\ cli' = [Did("to_json") EXCEPT !.pc = "report"]
    /\ UNCHANGED << downloader, call >>

\* the exception of download_images leaves main(), which has no handler
CliUncaught ==
    /\ cli.pc = "download"
    /\ main \in {"returned", "raised"}
    /\ OnDownloadEnd(main) = "uncaught"
    /\ cli' = [cli EXCEPT !.pc = "uncaught"]
    /\ UNCHANGED << downloader, manifest_file, call >>

\* lines 215-219: the template, then load_manifest(args.manifest)
CliLoadManifest ==
    /\ cli.pc = "report"
    /\ cli' = [Did("load_manifest") EXCEPT !.pc = "render"]
    /\ UNCHANGED << downloader, manifest_file, call >>

\* lines 222-235: generate_report, the static assets, return 0
CliReport ==
    /\ cli.pc = "render"
    /\ cli' = [Did("generate_report") EXCEPT !.pc = "exit", !.exit = 0]
    /\ UNCHANGED << downloader, manifest_file, call >>

InitCli ==
    /\ InitDownload
    /\ cli \in { [NoCli EXCEPT !.pc = "start", !.skip_download = b] : b \in BOOLEAN }
    /\ manifest_file \in {NoFile, OldManifest}
    /\ call = NoCall

NextCli ==
    \/ CliBegin
    \/ CliDownload
    \/ \E i \in Tasks : TaskBegin(i)
    \/ \E i \in Tasks : FetchCall(i)
    \/ \E i \in Tasks : FetchAttempt(i)
    \/ \E i \in Tasks : FetchStream(i)
    \/ \E i \in Tasks : FetchReturn(i)
    \/ Join
    \/ Abort
    \/ Raise
    \/ CliSave
    \/ CliUncaught
    \/ CliLoadManifest
    \/ CliReport

SpecCli == InitCli /\ [][NextCli]_vars

----------------------------------------------------------------------------
(* Properties of main(), checked under SpecCli *)

Count(e) == Cardinality({ k \in 1..Len(cli.events) : cli.events[k] = e })

\* C15: with --skip-download and no manifest file, main returns 1 having
\* neither downloaded nor reported; with --skip-download and the file, it
\* never calls download_images, loads the manifest, generates the report and
\* returns 0.
C15_SkipDownload ==
    cli.skip_download
        => /\ Count("download_images") = 0 /\ main = "idle" /\ run = 0
           /\ IF manifest_file.exists
              THEN /\ cli.pc \in {"start", "report", "render", "exit"}
                   /\ cli.pc = "exit"
                          => /\ cli.exit = 0
                             /\ cli.events = << "json.load", "load_manifest", "generate_report" >>
              ELSE /\ cli.pc \in {"start", "exit"}
                   /\ cli.events = << >>
                   /\ cli.pc = "exit" => cli.exit = 1

C15_Witness ==
    cli.skip_download /\ ~manifest_file.exists /\ cli.pc = "exit" /\ cli.exit = 1

C15_WitnessLoaded ==
    cli.skip_download /\ manifest_file.exists /\ cli.pc = "exit" /\ cli.exit = 0

\* C16: a downloading execution writes the manifest file exactly once, when
\* every unit of work has ended and before load_manifest reads it; an
\* execution whose download raises, and a --skip-download execution, never
\* write it.
C16_ManifestWrittenOnce ==
    /\ Count("to_json") <= 1
    /\ Count("to_json") = 1
           => /\ ~cli.skip_download
              /\ main = "returned"
              /\ \A i \in Tasks : Finished(i)
              /\ manifest_file = ToJson(manifest)
              /\ \A j, k \in 1..Len(cli.events) :
                     (cli.events[j] = "to_json" /\ cli.events[k] = "load_manifest") => j < k
    /\ Count("to_json") = 0 => manifest_file \in {NoFile, OldManifest}
    /\ (~cli.skip_download /\ cli.pc \in {"report", "render", "exit"}) => Count("to_json") = 1
    /\ main \in {"aborting", "raised"}
           => Count("to_json") = 0 /\ cli.pc \in {"download", "uncaught"}
    /\ cli.skip_download => Count("to_json") = 0 /\ Count("json.load") <= 1

C16_Witness ==
    /\ ~cli.skip_download
    /\ cli.pc = "exit"
    /\ cli.events = << "download_images", "to_json", "load_manifest", "generate_report" >>
    /\ Len(unique_animals) = 2
    /\ manifest_file.entries = manifest
    /\ manifest # << >>

C16_WitnessAborted ==
    cli.pc = "uncaught" /\ main = "raised" /\ manifest_file = OldManifest

----------------------------------------------------------------------------
(* SpecLoad: one call load_manifest(manifest_path) of src/src/renderer.py, *)
(* over the JSON object in the file and what parse_table returns for the   *)
(* snapshot beside it.                                                     *)

ParsedNames == {"cat", "dog"}
Paths == {"images/1.jpg", "images/2.jpg"}
NestedKey == "adjective_to_animals"

\* the flat shape: name -> path
FlatManifests == UNION { [S -> Paths] : S \in SUBSET ParsedNames }
\* the nested shape: its one key holds the category view
NestedManifests == { [k \in {NestedKey} |-> v] : v \in {"view 1", "view 2"} }

ParsedGroupings ==
    [Categories -> BoundedSeq({ Animal(n, "page_url") : n \in ParsedNames }, MaxParsed)]

\* lines 157-158: the (adjective, animal) pairs in iteration order
RECURSIVE PairsOf(_, _, _)
PairsOf(raw, c, k) ==
    IF k > Len(raw[c]) THEN << >>
    ELSE << [adjective |-> c, name |-> raw[c][k].name] >> \o PairsOf(raw, c, k + 1)

RECURSIVE AllPairs(_, _)
AllPairs(raw, k) ==
    IF k > Len(CategoryOrder) THEN << >>
    ELSE PairsOf(raw, CategoryOrder[k], 1) \o AllPairs(raw, k + 1)

Range(q) == { q[k] : k \in 1..Len(q) }
IndexOfName(assoc, n) == CHOOSE k \in 1..Len(assoc) : assoc[k].name = n

\* lines 159-163: one step of building animal_to_adjectives
AddAdjective(assoc, pair) ==
    LET known == IF \E k \in 1..Len(assoc) : assoc[k].name = pair.name
                 THEN assoc
                 ELSE Append(assoc, [name |-> pair.name, adjectives |-> << >>])
        at == IndexOfName(known, pair.name)
    IN  IF pair.adjective \in Range(known[at].adjectives) THEN known
        ELSE [known EXCEPT ![at].adjectives = Append(@, pair.adjective)]

\* lines 156-163
RECURSIVE AnimalToAdjectives(_, _)
AnimalToAdjectives(pairs, assoc) ==
    IF pairs = << >> THEN assoc
    ELSE AnimalToAdjectives(Tail(pairs), AddAdjective(assoc, Head(pairs)))

\* lines 170-180: one animal under one adjective
AddAnimal(view, adjective, n, path) ==
    LET listed == IF adjective \in DOMAIN view THEN view[adjective] ELSE << >>
        grown == IF \E k \in 1..Len(listed) : listed[k].name = n THEN listed
                 ELSE Append(listed, [name |-> n, image_path |-> path])
    IN  [a \in DOMAIN view \cup {adjective} |-> IF a = adjective THEN grown ELSE view[a]]

UnderFirst(view, adjectives, n, path) ==
    IF adjectives = << >> THEN view
    ELSE AddAnimal(view, Head(adjectives), n, path)

\* lines 169-180
RECURSIVE UnderEach(_, _, _, _)
UnderEach(view, adjectives, n, path) ==
    IF adjectives = << >> THEN view
    ELSE UnderEach(AddAnimal(view, Head(adjectives), n, path), Tail(adjectives), n, path)

\* lines 166-180
RECURSIVE Transform(_, _, _)
Transform(assoc, m, view) ==
    IF assoc = << >> THEN view
    ELSE LET e == Head(assoc)
         IN  Transform(Tail(assoc), m,
                       IF e.name \in DOMAIN m
                       THEN UnderEach(view, e.adjectives, e.name, m[e.name])
                       ELSE view)

load_manifest(m, raw) ==
    IF NestedKey \in DOMAIN m THEN m[NestedKey]
    ELSE Transform(AnimalToAdjectives(AllPairs(raw, 1), << >>), m, << >>)

InitLoad ==
    /\ call \in { [fn |-> "load_manifest", pc |-> "called", manifest |-> m,
                   parsed |-> g, ret |-> "none"] :
                  m \in FlatManifests \cup NestedManifests, g \in ParsedGroupings }
    /\ mapping = << >>
    /\ files = << >>
    /\ placeholder = "unset"
    /\ free_space_mb = 500
    /\ workers = 1
    /\ retries = 0
    /\ main = "idle"
    /\ unique_animals = << >>
    /\ task = << >>
    /\ manifest = << >>
    /\ run = 0
    /\ server = << >>
    /\ served = << >>
    /\ locate_calls = << >>
    /\ fetch_calls = << >>
    /\ copy_calls = << >>
    /\ files_at_start = << >>
    /\ first_manifest = NotRun
    /\ cli = NoCli
    /\ manifest_file = NoFile

LoadManifest ==
    /\ call.fn = "load_manifest"
    /\ call.pc = "called"
    /\ call' = [call EXCEPT !.pc = "returned",
                            !.ret = load_manifest(call.manifest, call.parsed)]
    /\ UNCHANGED << downloader, cli, manifest_file >>

NextLoad == LoadManifest

SpecLoad == InitLoad /\ [][NextLoad]_vars

----------------------------------------------------------------------------
(* Properties of load_manifest, checked under SpecLoad *)

Loaded == call.fn = "load_manifest" /\ call.pc = "returned"
ListedUnder(c) == IF c \in DOMAIN call.ret THEN call.ret[c] ELSE << >>
NamesOfCategory(c) == { call.parsed[c][k].name : k \in 1..Len(call.parsed[c]) }

C17_WitnessNested ==
    Loaded /\ NestedKey \in DOMAIN call.manifest /\ call.ret = "view 2"

----------------------------------------------------------------------------
(* SpecLocate: one call extract_image_url(page_url) of downloader.py.      *)
(* A URL is the sequence of its pieces, "/" being a piece of its own; a    *)
(* page is the sequence of its img tags in document order, each with the   *)
(* container that holds it.  Every strategy applies the same filter, so an *)
(* img tag that sits in containers of several strategies is taken, if at   *)
(* all, by the first of them: it is listed under that one.                 *)

Slash == "/"
ProtocolRelative(h, f) == << Slash, Slash, h, Slash, f >>
RootRelative(f) == << Slash, f >>
Relative(f) == << f >>
Absolute(scheme, h, f) == << scheme, Slash, Slash, h, Slash, f >>

\* src attributes; "Ab" matches a pattern of the list but for case, "ab" as it is
Srcs ==
    { ProtocolRelative("upload.host", "c.jpg"),
      RootRelative("c.jpg"),
      Relative("c.jpg"),
      Absolute("https:", "upload.host", "c.jpg"),
      ProtocolRelative("upload.host", "aB-icon.png"),
      << Slash, Slash, "upload.host", Slash, "thumb", Slash, "c.jpg", Slash, "9px-c.jpg" >> }

PageUrlsOf == { Absolute(sch, "en.host", "Cat") : sch \in {"http:", "https:"} }

\* width / height attributes: absent, or a number of pixels
NoDim == -1
Dims == { << NoDim, NoDim >>, << 49, 50 >>, << 50, 49 >>, << 50, 50 >>, << 60, 60 >> }

\* the containers the strategies look into, in the order of the cascade
PlaceOrder == << "infobox", "thumb", "sidebar", "lead", "gallery", "figure" >>
Places == { PlaceOrder[k] : k \in 1..Len(PlaceOrder) } \cup {"body"}

ImgTags == [place : Places, src : Srcs, dims : Dims]
Pages == BoundedSeq(ImgTags, MaxImages)

\* lines 111-152, one entry standing for the list; line 204 lowers it
excluded_patterns == { "Ab-icon" }

\* str.lower on the pieces of the model
LowerPiece(f) == IF f \in {"aB-icon.png", "Ab-icon.png"} THEN "ab-icon.png"
                 ELSE IF f = "Ab-icon" THEN "ab-icon"
                 ELSE f

\* pattern in piece, for the pieces of the model
PieceContains(f, pat) == pat = "ab-icon" /\ f = "ab-icon.png"

\* lines 203-206: any(pattern.lower() in img_src_lower ...)
Excluded(src) ==
    \E pat \in excluded_patterns : \E k \in 1..Len(src) :
        PieceContains(LowerPiece(src[k]), LowerPiece(pat))

\* lines 184-185: int(img_tag.get("width", 0))
DimOf(d) == IF d = NoDim THEN 0 ELSE d

TooSmallWidthOnly(img) == DimOf(img.dims[1]) < MIN_WIDTH

\* line 193
TooSmall(img) == DimOf(img.dims[1]) < MIN_WIDTH \/ DimOf(img.dims[2]) < MIN_HEIGHT

\* lines 182-210: the filter, the same in strategies 1 to 7
Qualifies(img) == ~TooSmall(img) /\ ~Excluded(img.src)

StartsWith(q, prefix) ==
    Len(q) >= Len(prefix) /\ SubSeq(q, 1, Len(prefix)) = prefix

\* lines 217-218: scheme://netloc of the page
BaseUrl(page_url) == << page_url[1], Slash, Slash, page_url[4] >>

\* lines 213-219
EnsureAbsolute(src, page_url) ==
    IF StartsWith(src, << Slash, Slash >>) THEN << "https:" >> \o src
    ELSE IF StartsWith(src, << Slash >>) THEN BaseUrl(page_url) \o src
    ELSE src

HasThumbDir(url) ==
    \E k \in 1..(Len(url) - 2) : url[k] = Slash /\ url[k + 1] = "thumb" /\ url[k + 2] = Slash

\* str.replace("/thumb/", "/")
RECURSIVE ReplaceThumb(_)
ReplaceThumb(url) ==
    IF url = << >> THEN << >>
    ELSE IF StartsWith(url, << Slash, "thumb", Slash >>)
         THEN << Slash >> \o ReplaceThumb(SubSeq(url, 4, Len(url)))
         ELSE << Head(url) >> \o ReplaceThumb(Tail(url))

Slashes(url) == { k \in 1..Len(url) : url[k] = Slash }
LastSlash(url) == CHOOSE k \in Slashes(url) : \A j \in Slashes(url) : j <= k

\* lines 273-284: the full-size URL behind a thumbnail URL
FullSize(url) ==
    IF HasThumbDir(url) /\ Cardinality(Slashes(url)) + 1 >= 4
    THEN ReplaceThumb(SubSeq(url, 1, LastSlash(url) - 1))
    ELSE url

\* the img tags of a strategy's containers that pass the filter
Candidates(images, place) ==
    { k \in 1..Len(images) : images[k].place = place /\ Qualifies(images[k]) }

First(S) == CHOOSE k \in S : \A j \in S : k <= j

\* lines 484-507: the largest area first, the earlier tag on a tie
Area(img) == DimOf(img.dims[1]) * DimOf(img.dims[2])
Largest(images) ==
    LET all == { k \in 1..Len(images) : Qualifies(images[k]) }
    IN  CHOOSE k \in all :
            \A j \in all : \/ Area(images[j]) < Area(images[k])
                           \/ Area(images[j]) = Area(images[k]) /\ k <= j

NotFound == [by |-> 0, tag |-> 0, url |-> None]

\* strategies 1 to 6 from the k-th on, then strategy 7
RECURSIVE Cascade(_, _, _)
Cascade(images, page_url, k) ==
    IF k > Len(PlaceOrder)
    THEN IF \E j \in 1..Len(images) : Qualifies(images[j])
         THEN [by |-> 7, tag |-> Largest(images),
               url |-> EnsureAbsolute(images[Largest(images)].src, page_url)]
         ELSE NotFound
    ELSE IF Candidates(images, PlaceOrder[k]) # {}
         THEN LET t == First(Candidates(images, PlaceOrder[k]))
                  abs == EnsureAbsolute(images[t].src, page_url)
              IN  [by |-> k, tag |-> t,
                   url |-> IF PlaceOrder[k] = "thumb" THEN FullSize(abs) ELSE abs]
         ELSE Cascade(images, page_url, k + 1)

\* lines 546-555: the first result image with a src, or none
SearchResults ==
    { << >>,
      << ProtocolRelative("upload.host", "c.jpg") >>,
      << Absolute("https:", "upload.host", "aB-icon.png") >>,
      << Relative("c.jpg") >> }

FirstResult(results) ==
    IF results = << >> THEN None
    ELSE IF StartsWith(results[1], << Slash, Slash >>) THEN << "https:" >> \o results[1]
    ELSE results[1]

InitLocate ==
    /\ call \in { [fn |-> "extract_image_url", pc |-> "called", page_url |-> u,
                   images |-> i, ret |-> None, by |-> 0, tag |-> 0,
                   page_requests |-> 0, search_requests |-> 0, search |-> "none"] :
                  u \in PageUrlsOf, i \in Pages }
    /\ mapping = << >>
    /\ files = << >>
    /\ placeholder = "unset"
    /\ free_space_mb = 500
    /\ workers = 1
    /\ retries = 0
    /\ main = "idle"
    /\ unique_animals = << >>
    /\ task = << >>
    /\ manifest = << >>
    /\ run = 0
    /\ server = << >>
    /\ served = << >>
    /\ locate_calls = << >>
    /\ fetch_calls = << >>
    /\ copy_calls = << >>
    /\ files_at_start = << >>
    /\ first_manifest = NotRun
    /\ cli = NoCli
    /\ manifest_file = NoFile

\* a locator that goes on to the Commons search when the page request failed
AfterPageRequestSearches(outcome) == IF outcome = "ok" THEN "parsed" ELSE "search"

\* lines 166-169 and 561-563: a failed page request leaves the try block
\* for the handler, which returns None
AfterPageRequest(outcome) == IF outcome = "ok" THEN "parsed" ELSE "returned"

\* lines 166-167 and 561-563: the page request and raise_for_status
LocateGetPage ==
    /\ call.fn = "extract_image_url"
    /\ call.pc = "called"
    /\ \E outcome \in {"ok", "RequestException"} :
        call' = [call EXCEPT !.page_requests = @ + 1,
                             !.pc = AfterPageRequest(outcome),
                             !.search = IF outcome = "ok" THEN "none" ELSE "page failed"]
    /\ UNCHANGED << downloader, cli, manifest_file >>

\* lines 169-526: the strategies over the page's markup
LocateCascade ==
    /\ call.fn = "extract_image_url"
    /\ call.pc = "parsed"
    /\ LET found == Cascade(call.images, call.page_url, 1)
       IN  call' = [call EXCEPT !.pc = IF found.by = 0 THEN "search" ELSE "returned",
                                !.by = found.by, !.tag = found.tag, !.ret = found.url]
    /\ UNCHANGED << downloader, cli, manifest_file >>

\* lines 528-559: the Commons search
LocateSearch ==
    /\ call.fn = "extract_image_url"
    /\ call.pc = "search"
    /\ \/ call' = [call EXCEPT !.pc = "returned", !.search_requests = @ + 1,
                               !.search = "failed"]
       \/ \E r \in SearchResults :
            call' = [call EXCEPT !.pc = "returned", !.search_requests = @ + 1,
                                 !.search = IF r = << >> THEN "no result" ELSE "result",
                                 !.by = IF r = << >> THEN 0 ELSE 8,
                                 !.ret = FirstResult(r)]
    /\ UNCHANGED << downloader, cli, manifest_file >>

NextLocate == LocateGetPage \/ LocateCascade \/ LocateSearch

SpecLocate == InitLocate /\ [][NextLocate]_vars

----------------------------------------------------------------------------
(* Properties of extract_image_url, checked under SpecLocate *)

Located == call.fn = "extract_image_url" /\ call.pc = "returned"
PageFetched == call.fn = "extract_image_url" /\ call.search # "page failed"
FromMarkup == call.by \in 1..7

DeclaredSmall(img) ==
    \/ img.dims[1] # NoDim /\ img.dims[1] < 50
    \/ img.dims[2] # NoDim /\ img.dims[2] < 50

\* every img tag of the page is small by its declared size or on the denylist
OnlyRejectable(images) ==
    \A k \in 1..Len(images) : DeclaredSmall(images[k]) \/ Excluded(images[k].src)

C18_WitnessSearchResult ==
    Located /\ Len(call.images) = 1 /\ OnlyRejectable(call.images) /\ call.by = 8

IsAbsolute(url) ==
    /\ Len(url) >= 4
    /\ url[1] \in {"http:", "https:"}
    /\ url[2] = Slash /\ url[3] = Slash /\ url[4] # Slash

\* C19: a URL taken from the page's markup is returned absolute: a
\* protocol-relative src with the scheme of the page URL, a root-relative one
\* with the page URL's scheme and host, for http and https pages.
C19_ReturnedUrlAbsolute ==
    (Located /\ FromMarkup)
        => LET src == call.images[call.tag].src
           IN  /\ IsAbsolute(call.ret)
               /\ StartsWith(src, << Slash, Slash >>) => call.ret[1] = call.page_url[1]
               /\ (StartsWith(src, << Slash >>) /\ ~StartsWith(src, << Slash, Slash >>))
                      => call.ret = BaseUrl(call.page_url) \o src

\* the part of C19 about root-relative src
RootRelativeGetsPageBase ==
    (Located /\ FromMarkup)
        => LET src == call.images[call.tag].src
           IN  (StartsWith(src, << Slash >>) /\ ~StartsWith(src, << Slash, Slash >>))
                   => call.ret = BaseUrl(call.page_url) \o src /\ IsAbsolute(call.ret)

FirstAt(images, place) == First({ k \in 1..Len(images) : images[k].place = place })
Undeclared(img) == img.dims = << NoDim, NoDim >> /\ ~Excluded(img.src)

\* C20: an img tag with a src and without width and height passes the size
\* filter: when it is the first img of the infobox, or the only img of a
\* page without infobox, the call returns its absolute URL.
C20_UndeclaredSizeAccepted ==
    (Located /\ PageFetched /\ call.images # << >>)
        => LET images == call.images
           IN  /\ (\E k \in 1..Len(images) : images[k].place = "infobox")
                      => LET k == FirstAt(images, "infobox")
                         IN  Undeclared(images[k])
                                 => /\ call.by = 1 /\ call.tag = k
                                    /\ call.ret = EnsureAbsolute(images[k].src, call.page_url)
               /\ (Len(images) = 1 /\ images[1].place = "body" /\ Undeclared(images[1]))
                      => /\ call.by = 7 /\ call.tag = 1
                         /\ call.ret = EnsureAbsolute(images[1].src, call.page_url)

----------------------------------------------------------------------------
(* slugify on its own: SpecSlug applies it to every name of at most
   MaxNameLen characters over SlugAlphabet and to the names that
   test_slugify uses, and then to its own result *)

MaxNameLen == 4

\* an upper-case and a lower-case letter, a digit, the space, the hyphen,
\* the underscore and a character that the pattern of line 86 removes
SlugAlphabet == {"A", "b", "0", " ", "-", "_", "!"}

AfricanElephant == << "A", "f", "r", "i", "c", "a", "n", " ", "e", "l", "e", "p", "h", "a", "n", "t" >>
SpacesPadded == << " ", " ", "S", "p", "a", "c", "e", "s", " ", " " >>
MultipleHyphens == << "M", "u", "l", "t", "i", "p", "l", "e", "-", "-", "H", "y", "p", "h", "e", "n", "s" >>
UnderscoreTest == << "U", "n", "d", "e", "r", "s", "c", "o", "r", "e", "_", "T", "e", "s", "t" >>

TestNames == { AfricanElephant, SpacesPadded, MultipleHyphens, UnderscoreTest }

SlugInputs == BoundedSeq(SlugAlphabet, MaxNameLen) \cup TestNames

InitSlug ==
    /\ call \in { [fn |-> "slugify", pc |-> "called", name |-> x,
                   ret |-> None, again |-> None] : x \in SlugInputs }
    /\ mapping = << >>
    /\ files = << >>
    /\ placeholder = "unset"
    /\ free_space_mb = 500
    /\ workers = 1
    /\ retries = 0
    /\ main = "idle"
    /\ unique_animals = << >>
    /\ task = << >>
    /\ manifest = << >>
    /\ run = 0
    /\ server = << >>
    /\ served = << >>
    /\ locate_calls = << >>
    /\ fetch_calls = << >>
    /\ copy_calls = << >>
    /\ files_at_start = << >>
    /\ first_manifest = NotRun
    /\ cli = NoCli
    /\ manifest_file = NoFile

\* slugify(name)
SlugifyName ==
    /\ call.fn = "slugify"
    /\ call.pc = "called"
    /\ call' = [call EXCEPT !.pc = "returned", !.ret = slugify(call.name)]
    /\ UNCHANGED << downloader, cli, manifest_file >>

\* slugify(slugify(name))
SlugifyAgain ==
    /\ call.fn = "slugify"
    /\ call.pc = "returned"
    /\ call' = [call EXCEPT !.pc = "twice", !.again = slugify(call.ret)]
    /\ UNCHANGED << downloader, cli, manifest_file >>

NextSlug == SlugifyName \/ SlugifyAgain

SpecSlug == InitSlug /\ [][NextSlug]_vars

----------------------------------------------------------------------------
(* Properties of slugify (SpecSlug) *)

Slugified == call.fn = "slugify" /\ call.pc \in {"returned", "twice"}

CountOf(c, s) == Cardinality({ i \in 1..Len(s) : s[i] = c })

\* C21: for every input the result of slugify contains only [a-z0-9-_], has
\* no two adjacent hyphens, neither starts nor ends with a hyphen and keeps
\* every underscore of the input; slugify of the result is the result; and
\* the four names of test_slugify give the slugs the tests expect.
C21_SlugifyShape ==
    Slugified
        => LET x == call.name
               s == call.ret
           IN  /\ \A i \in 1..Len(s) : s[i] \in LowerCase \cup Digits \cup {"-", "_"}
               /\ \A i \in 1..(Len(s) - 1) : ~(s[i] = "-" /\ s[i + 1] = "-")
               /\ s # << >> => (s[1] # "-" /\ s[Len(s)] # "-")
               /\ CountOf("_", s) = CountOf("_", x)
               /\ call.pc = "twice" => call.again = s
               /\ x = AfricanElephant => s = << "a", "f", "r", "i", "c", "a", "n", "-", "e", "l", "e", "p", "h", "a", "n", "t" >>
               /\ x = SpacesPadded => s = << "s", "p", "a", "c", "e", "s" >>
               /\ x = MultipleHyphens => s = << "m", "u", "l", "t", "i", "p", "l", "e", "-", "h", "y", "p", "h", "e", "n", "s" >>
               /\ x = UnderscoreTest => s = << "u", "n", "d", "e", "r", "s", "c", "o", "r", "e", "_", "t", "e", "s", "t" >>

\* an upper-case letter, a space next to a hyphen and an underscore
C21_Witness ==
    /\ call.fn = "slugify"
    /\ call.pc = "twice"
    /\ call.name = << "A", " ", "-", "_" >>
    /\ call.ret = << "a", "-", "_" >>

\* one of the names of test_slugify
C21_WitnessTestName ==
    /\ call.fn = "slugify"
    /\ call.pc = "twice"
    /\ call.name = MultipleHyphens
    /\ Len(call.ret) = Len(call.name) - 1

----------------------------------------------------------------------------
(* What main() shows of the grouping: the report data that load_manifest
   builds from the manifest file, and the console listing *)

\* cli.py line 219: load_manifest(args.manifest). Its raw grouping has the
\* names of mapping, since it parses the same page again; the keys of the
\* file that Manifest.to_json wrote are entity names, none of which is
\* "adjective_to_animals", so the call takes lines 156-180 of renderer.py
ReportData ==
    Transform(AnimalToAdjectives(AllPairs(mapping, 1), << >>), manifest_file.entries, << >>)

ReportShows(c, n) ==
    /\ c \in DOMAIN ReportData
    /\ \E k \in 1..Len(ReportData[c]) : ReportData[c][k].name = n

\* cli.py lines 186-205: the Manifest object main() holds
CliManifest == IF cli.skip_download THEN manifest_file.entries ELSE manifest

NoImageAvailable == "No image available"

\* print_adjective_animals, lines 136-139: the image shown for an occurrence
ConsoleImage(a) ==
    IF a.image_path # None THEN a.image_path
    ELSE IF a.name \in DOMAIN CliManifest THEN CliManifest[a.name]
    ELSE NoImageAvailable

Reported == cli.pc = "exit" /\ cli.exit = 0

FullyFailed(n) ==
    /\ n \in NamesIn(mapping)
    /\ n \notin DOMAIN manifest
    /\ \A i \in Tasks : unique_animals[i].name = n => task[i].result = "None"

\* C22: an entity that fully failed is absent from the manifest, and when
\* main() of a downloading execution has returned 0, the console listing
\* shows every occurrence of it with "No image available" and the report
\* data lists it under each of its categories.
C22_FailedEntityStillShown ==
    (Reported /\ ~cli.skip_download)
        => \A c \in Categories : \A k \in 1..Len(mapping[c]) :
              LET a == mapping[c][k]
              IN  FullyFailed(a.name)
                      => /\ a.name \notin DOMAIN manifest_file.entries
                         /\ ConsoleImage(a) = NoImageAvailable
                         /\ ReportShows(c, a.name)

\* the part of C22 that the code meets: no crash, and the console listing
C22_ConsoleShowsNoImage ==
    (Reported /\ ~cli.skip_download)
        => \A c \in Categories : \A k \in 1..Len(mapping[c]) :
              LET a == mapping[c][k]
              IN  a.name \notin DOMAIN manifest
                      => /\ FullyFailed(a.name)
                         /\ a.name \notin DOMAIN manifest_file.entries
                         /\ ConsoleImage(a) = NoImageAvailable
                         /\ ~ReportShows(c, a.name)

C22_ReachesReport ==
    /\ Reported /\ ~cli.skip_download
    /\ \E c \in Categories : \E k \in 1..Len(mapping[c]) : FullyFailed(mapping[c][k].name)

----------------------------------------------------------------------------
(* Properties of one unit of work and of the join, checked under Spec *)

SameRun == run' = run

\* the unit of work of the name n issues an image request in this step
FetchRequestBy(i) == task'[i].requests > task[i].requests

\* the unit of work of the name n calls shutil.copy in this step
CopyBy(i) == copy_calls'[unique_animals[i].name] > copy_calls[unique_animals[i].name]

\* C23: in every step of a unit of work, an image request is issued only
\* when the unit's single locate call has been made and has returned; the
\* placeholder is copied only by a unit whose fetch has returned False or
\* that calls no fetch at all, at most once, and never by a unit whose fetch
\* returned True.
C23_StepsInOrder ==
    [][SameRun =>
          \A i \in Tasks :
              LET n == unique_animals[i].name
              IN  /\ FetchRequestBy(i)
                      => /\ locate_calls[n] = 1 /\ locate_calls'[n] = 1
                         /\ fetch_calls[n] = 1
                         /\ copy_calls[n] = 0
                  /\ fetch_calls'[n] > fetch_calls[n]
                      => /\ task[i].pc = "queued"
                         /\ locate_calls'[n] = 1
                         /\ copy_calls'[n] = 0
                  /\ CopyBy(i)
                      => /\ copy_calls[n] = 0
                         /\ task'[i].pc = "done"
                         /\ \/ task[i].pc = "fetched" /\ task[i].ret = "False"
                            \/ task[i].pc = "queued" /\ fetch_calls'[n] = 0
                  /\ (task[i].pc = "fetched" /\ task[i].ret = "True" /\ task'[i].pc = "done")
                      => /\ copy_calls'[n] = 0
                         /\ task'[i].result = "path"]_vars

\* located, fetched without success, then the placeholder copied
C23_Witness ==
    \E i \in Tasks :
        LET n == unique_animals[i].name
        IN  /\ task[i].pc = "done" /\ task[i].result = "path"
            /\ locate_calls[n] = 1 /\ fetch_calls[n] = 1 /\ copy_calls[n] = 1
            /\ files[Dest(i)] = PlaceholderCopy

\* located and fetched with success: no copy
C23_WitnessFetched ==
    \E i \in Tasks :
        LET n == unique_animals[i].name
        IN  /\ task[i].pc = "done" /\ task[i].result = "path"
            /\ locate_calls[n] = 1 /\ fetch_calls[n] = 1 /\ copy_calls[n] = 0
            /\ files[Dest(i)].kind = "image"
            /\ placeholder = "present"

\* no unit of work is queued or inside its function
AllCollected == \A i \in Tasks : task[i].pc = "done"

\* C24: manifest_entries changes only in two steps of the calling thread:
\* when download_images starts, where it is created empty, and at the join,
\* taken when every unit of work has ended, where all entries are merged at
\* once; no step of a worker changes it.
C24_ManifestWrittenAfterJoin ==
    [][manifest' # manifest
          => \/ /\ main \in {"idle", "returned", "raised"}
                /\ run' = run + 1
                /\ manifest' = << >>
             \/ /\ main = "fanout" /\ main' = "returned"
                /\ AllCollected
                /\ task' = task
                /\ DOMAIN manifest' = { unique_animals[i].name :
                                          i \in { j \in Tasks : task[j].result = "path" } }]_vars

\* as long as a unit of work is queued or running, the accumulator is empty
C24_EmptyWhileRunning ==
    (main \in {"fanout", "aborting"}) => manifest = << >>

\* two entries merged by one join
C24_Witness ==
    /\ main = "returned"
    /\ Len(unique_animals) = 2
    /\ AllCollected
    /\ Cardinality(DOMAIN manifest) = 2

\* the page_url of the first occurrence of the name n, the categories being
\* walked in mapping order and each list from its head
FirstOccurrenceUrl(n) ==
    LET c == CategoryOrder[First({ k \in 1..Len(CategoryOrder) :
                                     CategoryOrder[k] \in CategoriesOf(n) })]
        k == First({ j \in 1..Len(mapping[c]) : mapping[c][j].name = n })
    IN  mapping[c][k].page_url

\* C25: the unit of work of a name uses the page_url of the first occurrence
\* of the name; a unit without page_url calls neither extract_image_url nor
\* fetch_with_retries, and when its file does not exist its first step is
\* the placeholder fallback, which ends it.
C25_NoSourceRefNoRequest ==
    [][SameRun =>
          \A i \in Tasks :
              LET a == unique_animals[i]
              IN  /\ a.page_url = FirstOccurrenceUrl(a.name)
                  /\ a.page_url = NoUrl
                      => /\ locate_calls'[a.name] = 0 /\ fetch_calls'[a.name] = 0
                         /\ task'[i].requests = 0
                         /\ (task[i].pc = "queued" /\ task'[i].pc \notin {"queued", "cancelled"}
                               /\ ~Exists(files[Dest(i)]))
                                => /\ task'[i].pc = "done"
                                   /\ copy_calls'[a.name] = CopyAttempts
                                   /\ task'[i].result = "path" <=> files'[Dest(i)] = PlaceholderCopy
                                   /\ task'[i].result = "None" <=> placeholder # "present"]_vars

\* a name without page_url at its first occurrence and with one at its
\* second; its unit has copied the placeholder
C25_Witness ==
    \E i \in Tasks :
        LET n == unique_animals[i].name
        IN  /\ Shared(n)
            /\ unique_animals[i].page_url = NoUrl
            /\ \E k \in 1..Len(mapping["selachian"]) :
                  mapping["selachian"][k].name = n /\ mapping["selachian"][k].page_url # NoUrl
            /\ task[i].pc = "done" /\ copy_calls[n] = 1
            /\ files_at_start[Dest(i)] = Absent

----------------------------------------------------------------------------
(* A page that cannot be fetched (SpecLocate), and what the unit of work
   does with a locator that returned None (Spec) *)

PageFailed == call.fn = "extract_image_url" /\ call.search = "page failed"

\* C26: when the page request fails, by a transport error or by the error
\* status that raise_for_status turns into an exception, extract_image_url
\* has returned None at once: one page request, no second one, no Commons
\* search request, no strategy run.
C26_PageFailureIsTerminal ==
    PageFailed
        => /\ call.pc = "returned"
           /\ call.ret = None
           /\ call.page_requests = 1
           /\ call.search_requests = 0
           /\ call.by = 0 /\ call.tag = 0

\* a page with a usable infobox image, had it been fetched
C26_Witness ==
    /\ PageFailed
    /\ call.pc = "returned"
    /\ call.images # << >>
    /\ Cascade(call.images, call.page_url, 1).by = 1

\* the other half of C26, in download_animal_image: a unit whose locate call
\* returned None calls no fetch and ends in the same step by the placeholder
\* fallback
LocatedNothingThenFallback ==
    [][SameRun =>
          \A i \in Tasks :
              LET n == unique_animals[i].name
              IN  (locate_calls'[n] > locate_calls[n] /\ fetch_calls'[n] = 0)
                      => /\ task'[i].pc = "done"
                         /\ task'[i].requests = 0
                         /\ copy_calls'[n] = CopyAttempts
                         /\ task'[i].result = "None" <=> placeholder # "present"]_vars

----------------------------------------------------------------------------
(* The backoff of fetch_with_retries (SpecFetch); times in ms *)

\* base_delay * 2^(n-2), the exponential part of the sleep before the n-th request
ExponentialPart(n) == BaseDelayMs * (2 ^ (n - 2))

\* C27: at every point of a call of fetch_with_retries, and after it, the
\* sleeps so far are one fewer than the requests so far (none when no
\* request was made), so none precedes the first request and none follows
\* the last; the sleep before the n-th request, n >= 2, is
\* base_delay * 2^(n-2) plus a jitter of 50 to 150 ms, its exponential part
\* being twice that of the sleep before.
C27_BackoffBeforeLaterAttempts ==
    /\ Len(Call.slept) = (IF Call.requests = 0 THEN 0 ELSE Call.requests - 1)
    /\ \A n \in 2..Call.requests :
          LET jitter == Call.slept[n - 1] - ExponentialPart(n)
          IN  /\ 50 <= jitter /\ jitter <= 150
              /\ n >= 3 => ExponentialPart(n) = 2 * ExponentialPart(n - 1)
    /\ Call.pc = "fetch" => Call.requests = Call.attempt

\* three requests: sleeps of 0.5 s + 50 ms and of 1 s + 150 ms
C27_Witness ==
    /\ Call.pc = "fetched"
    /\ Call.requests = 3
    /\ Call.slept = << 550, 1150 >>

----------------------------------------------------------------------------
(* Termination. Every request returns or fails within its timeout, so a
   step that can be taken is taken in the end: weak fairness of the
   next-state action of each specification *)

SpecLive == Spec /\ WF_vars(Next)
SpecFetchLive == SpecFetch /\ WF_vars(NextFetch)

MaxAttempts == IF retries > 0 THEN retries ELSE 0

\* requests of one unit of work, and calls per name, within their limits
UnitWithinLimits(i) ==
    LET n == unique_animals[i].name
    IN  /\ task[i].requests <= MaxAttempts
        /\ locate_calls[n] <= 1
        /\ fetch_calls[n] <= 1
        /\ (task[i].pc = "fetched" /\ MaxAttempts = 0)
              => task[i].requests = 0 /\ task[i].ret = "False"

AllReturned == \A i \in Tasks : task[i].pc = "done" /\ task[i].result \in {"path", "None"}

\* C28: every call of download_images ends, by a return or by an exception;
\* it returns once every unit of work has returned its result; no unit of
\* work issues more than retries image requests (none when retries is 0,
\* the fetch returning False), calls the locator more than once or
\* fetch_with_retries more than once.
C28_EveryCallTerminates ==
    /\ [](\A i \in Tasks : UnitWithinLimits(i))
    /\ (main = "fanout") ~> (main \in {"returned", "raised"})
    /\ (main = "fanout" /\ AllReturned) ~> (main = "returned")

\* a run that has returned after a unit used all its attempts
C28_Witness ==
    /\ main = "returned"
    /\ retries = MaxRetries
    /\ \E i \in Tasks : fetch_calls[unique_animals[i].name] = 1 /\ task[i].result = "None"

\* one call of fetch_with_retries ends within max(retries, 0) requests
FetchTerminates ==
    /\ [](Call.requests <= MaxAttempts)
    /\ [](Ended /\ retries <= 0 => Call.requests = 0 /\ Call.ret = "False")
    /\ <>(Call.pc = "fetched")

\* one call of extract_image_url makes at most one page request and one
\* search request
LocateWithinLimits ==
    call.fn = "extract_image_url"
        => /\ call.page_requests <= 1 /\ call.search_requests <= 1
           /\ call.pc \in {"called", "parsed", "search", "returned"}
           /\ call.pc = "called" => call.page_requests = 0
           /\ call.pc \in {"called", "parsed", "search"} => call.search_requests = 0

----------------------------------------------------------------------------
(* What a run leaves behind (Spec) *)

Occurrences == { << c, k >> : c \in Categories, k \in 1..MaxPerCategory }
IsOccurrence(o) == o[2] <= Len(mapping[o[1]])
At(o) == mapping[o[1]][o[2]]

\* C29: when download_images has returned, every occurrence whose name is a
\* manifest key has image_path = manifest[name] = output_dir/slugify(name).jpg
\* and that file exists; every occurrence whose name is not a manifest key
\* has image_path None, as it had before the call.
C29_OccurrencesMatchManifest ==
    main = "returned"
        => \A o \in Occurrences :
              IsOccurrence(o)
                  => LET a == At(o)
                     IN  IF a.name \in DOMAIN manifest
                         THEN /\ a.image_path = manifest[a.name]
                              /\ manifest[a.name] = ImagePath(slugify(a.name))
                              /\ Exists(files[slugify(a.name)])
                         ELSE a.image_path = None

\* an occurrence never loses its path, in any step of any run
ImagePathKept ==
    [][\A o \in Occurrences :
          (IsOccurrence(o) /\ At(o).image_path # None)
              => /\ mapping'[o[1]][o[2]].image_path = At(o).image_path
                 /\ Exists(files[slugify(At(o).name)])]_vars

\* a shared name with an entry: both occurrences carry its path
C29_Witness ==
    /\ main = "returned"
    /\ \E n \in DOMAIN manifest :
          /\ Shared(n)
          /\ \A c \in Categories : mapping[c][1].image_path = ImagePath(slugify(n))

\* a name with an entry next to a name without
C29_WitnessNoEntry ==
    /\ main = "returned"
    /\ \E o \in Occurrences : IsOccurrence(o) /\ At(o).name \in DOMAIN manifest
    /\ \E o \in Occurrences :
          IsOccurrence(o) /\ At(o).name \notin DOMAIN manifest /\ At(o).image_path = None

LeftAsPlaceholder(n) == run >= 2 /\ files_at_start[slugify(n)] = PlaceholderCopy

\* C30: in a run that finds, at its start, a placeholder copy from an
\* earlier run at the destination of an entity, the unit of that entity
\* calls neither extract_image_url nor fetch_with_retries nor shutil.copy,
\* the file stays that copy, the unit's result is the path, and the manifest
\* the run returns maps the name to it.
C30_PlaceholderSticky ==
    \A i \in Tasks :
        LET n == unique_animals[i].name
        IN  (Started /\ LeftAsPlaceholder(n))
                => /\ locate_calls[n] = 0 /\ fetch_calls[n] = 0 /\ copy_calls[n] = 0
                   /\ task[i].requests = 0
                   /\ files[slugify(n)] = PlaceholderCopy
                   /\ task[i].pc \in {"queued", "cancelled", "done"}
                   /\ task[i].pc = "done" => task[i].result = "path"
                   /\ main = "returned"
                         => /\ n \in DOMAIN manifest
                            /\ manifest[n] = ImagePath(slugify(n))
                            /\ OccurrencesHave(n, ImagePath(slugify(n)))

\* the second run has returned the placeholder copy of the first for an
\* entity that has a page_url
C30_Witness ==
    /\ main = "returned"
    /\ \E i \in Tasks :
          /\ LeftAsPlaceholder(unique_animals[i].name)
          /\ unique_animals[i].page_url # NoUrl
          /\ unique_animals[i].name \in DOMAIN manifest

====
